---- MODULE Spec2Model ----
(***************************************************************************)
(* Model of the GalaxyMap component (src/components/World/GalaxyMap.tsx):  *)
(* the ship position held in two motion values, the three React state      *)
(* cells (isDragging, isDecelerating, nearbyPoint) with their queued       *)
(* updates, the pan / pan-end / click handlers, the deceleration timer and *)
(* the collision-sound promise.                                            *)
(*                                                                         *)
(* Numbers.  JavaScript numbers are modelled as records [k, v]: k = "fin"  *)
(* with v the value in fixed-point units, or k = "nan" / "pinf" / "ninf"   *)
(* (v = 0).  One percent of the map is Scale units; the input sets below   *)
(* are chosen so that every division of the handlers is exact in these     *)
(* units, so that the fixed-point value is the real value (binary rounding *)
(* of the doubles is not modelled).                                        *)
(*                                                                         *)
(* React state.  A handler reads the state captured by its closure at the  *)
(* last render: the variables isDragging, isDecelerating and nearbyPoint   *)
(* hold that rendered state.  A setState call does not change it; it is    *)
(* queued.  pendX is <<>> when no update of X is queued and <<v>> when the *)
(* queued updates of X reduce to v (every update of the component sets a   *)
(* plain value, so the last one wins).  Render applies the queues and      *)
(* re-creates the closures.                                                *)
(***************************************************************************)
EXTENDS Integers, Sequences, FiniteSets, TLC

VARIABLES
    containerRef,      \* "null" | "div": containerRef.current
    panSession,        \* a pan gesture is in progress (onPanStart sent, onPanEnd not yet)
    shipX, shipY,      \* motion values (JavaScript numbers)
    isDragging,        \* rendered state, captured by handlePointClick
    isDecelerating,    \* rendered state
    nearbyPoint,       \* rendered state, captured by checkProximity
    pendDragging,      \* queued setIsDragging updates
    pendDecelerating,  \* queued setIsDecelerating updates
    pendNearby,        \* queued setNearbyPoint updates
    timers,            \* pending setTimeout callbacks of handlePanEnd
    sounds,            \* playBarrierCollisionSound promises not yet settled
    unhandledRejection,\* a promise rejection reached no handler
    click,             \* the click handled by the last step and its onPointClick call
    caught             \* the last step ran the catch callback of a rejected sound promise

vars == <<containerRef, panSession, shipX, shipY, isDragging, isDecelerating, nearbyPoint,
          pendDragging, pendDecelerating, pendNearby, timers, sounds,
          unhandledRejection, click, caught>>

----------------------------------------------------------------------------
(* Program constants *)

threshold == 8

margin == 5

mapSize == 100

percent == 100

sensitivityNum == 12

sensitivityDen == 10

minSpeed == 100

momentumFactorNum == 1

momentumFactorDen == 10

momentumDivisor == 10

startX == 50

startY == 50

(* Fixed-point resolution: units per percent.  It is the denominator of the *)
(* momentum arithmetic (velocity * 0.1 / 10), so a momentum step of any     *)
(* integer velocity is a whole number of units.                             *)
Scale == momentumFactorDen * momentumDivisor

(* Bounds of the model *)
MaxTimers == 1

MaxSounds == 1

(* Inputs of the events.  Rects are the rectangles <<width, height>> that    *)
(* getBoundingClientRect may report: the laid-out container, and 0 x 0 for  *)
(* a container that is not laid out (hidden, or detached).  DeltasX/DeltasY *)
(* are the per-event pointer deltas in pixels (15 percent of the laid-out   *)
(* rectangle at sensitivity 1.2); Velocities the release velocities in      *)
(* pixels per second: of speed exactly 100, and of speed 1500 along each    *)
(* axis.  NoDelta and LaidOut restrict a pan to the horizontal axis of the  *)
(* laid-out container, HVelocities a release to a horizontal one.           *)
(* FineDeltasX move the ship by 4 percent of the laid-out width, and        *)
(* FineDeltasY by 15 percent of its height, downwards.                      *)
Rects == {<<240, 320>>, <<0, 0>>}

LaidOut == {<<240, 320>>}

DeltasX == {-30, 0, 30}

DeltasY == {-40, 0, 40}

NoDelta == {0}

Velocities == {<<60, 80>>, <<1500, 0>>, <<-1500, 0>>, <<0, 1500>>, <<0, -1500>>}

FineDeltasX == {-8, 0, 8}

FineDeltasY == {0, 40}

HVelocities == {<<60, 80>>, <<1500, 0>>, <<-1500, 0>>}

NULL == "null"

(* The points of interest, in list order.  Of each entry the id, position, *)
(* name (without diacritics) and type are kept; description and image are  *)
(* display data that no handler reads.                                     *)
GALAXY_POINTS == <<
    [id |-> "terra-nova",       x |-> 20, y |-> 30, name |-> "Terra Nova",          type |-> "planet"],
    [id |-> "estacao-omega",    x |-> 60, y |-> 20, name |-> "Estacao Omega",       type |-> "station"],
    [id |-> "nebulosa-crimson", x |-> 80, y |-> 70, name |-> "Nebulosa Crimson",    type |-> "nebula"],
    [id |-> "mundo-gelado",     x |-> 15, y |-> 75, name |-> "Mundo Gelado",        type |-> "planet"],
    [id |-> "planeta-limite",   x |-> 85, y |-> 25, name |-> "Planeta Limite",      type |-> "planet"],
    [id |-> "estacao-borda",    x |-> 40, y |-> 80, name |-> "Estacao da Borda",    type |-> "station"],
    [id |-> "campo-asteroides", x |-> 70, y |-> 50, name |-> "Campo de Asteroides", type |-> "asteroid"] >>

PointIds == {GALAXY_POINTS[i].id : i \in DOMAIN GALAXY_POINTS}

----------------------------------------------------------------------------
(* JavaScript number arithmetic *)

Fin(n) == [k |-> "fin", v |-> n]

NaN == [k |-> "nan", v |-> 0]

PosInf == [k |-> "pinf", v |-> 0]

NegInf == [k |-> "ninf", v |-> 0]

(* a + b *)
FAdd(a, b) ==
    IF a.k = "nan" \/ b.k = "nan" THEN NaN
    ELSE IF a.k = "fin" /\ b.k = "fin" THEN Fin(a.v + b.v)
    ELSE IF a.k = "fin" THEN b
    ELSE IF b.k = "fin" THEN a
    ELSE IF a.k = b.k THEN a
    ELSE NaN

(* a < n and a > n for a finite n, in units; false for NaN *)
FLt(a, n) == (a.k = "ninf") \/ (a.k = "fin" /\ a.v < n)

FGt(a, n) == (a.k = "pinf") \/ (a.k = "fin" /\ a.v > n)

----------------------------------------------------------------------------
(* checkProximity *)

(* The square of Math.sqrt(Math.pow(x - point.x, 2) + Math.pow(y - point.y, 2)), *)
(* in units squared, for finite x and y.  The square root is increasing, so the  *)
(* comparisons of distances below are comparisons of these squares.              *)
Distance2(x, y, point) ==
    (x.v - point.x * Scale) * (x.v - point.x * Scale)
    + (y.v - point.y * Scale) * (y.v - point.y * Scale)

(* forEachPoint with the threshold test written distance <= threshold. *)
forEachPointInclusive(acc, x, y, point) ==
    IF x.k = "fin" /\ y.k = "fin"
       /\ Distance2(x, y, point) <= (threshold * Scale) * (threshold * Scale)
       /\ (acc.minDistance2 = -1 \/ Distance2(x, y, point) < acc.minDistance2)
    THEN [closestPoint |-> point.id, minDistance2 |-> Distance2(x, y, point)]
    ELSE acc

(* One call of the forEach callback.  acc is [closestPoint, minDistance2], with *)
(* minDistance2 = -1 standing for minDistance = Infinity.  A NaN coordinate     *)
(* makes the distance NaN and both comparisons false.                           *)
forEachPoint(acc, x, y, point) ==
    IF x.k = "fin" /\ y.k = "fin"
       /\ Distance2(x, y, point) < (threshold * Scale) * (threshold * Scale)
       /\ (acc.minDistance2 = -1 \/ Distance2(x, y, point) < acc.minDistance2)
    THEN [closestPoint |-> point.id, minDistance2 |-> Distance2(x, y, point)]
    ELSE acc

RECURSIVE forEachFrom(_, _, _, _)
forEachFrom(i, acc, x, y) ==
    IF i > Len(GALAXY_POINTS) THEN acc
    ELSE forEachFrom(i + 1, forEachPoint(acc, x, y, GALAXY_POINTS[i]), x, y)

(* closestPoint after the loop *)
closestPoint(x, y) ==
    forEachFrom(1, [closestPoint |-> NULL, minDistance2 |-> -1], x, y).closestPoint

(* The queue of nearbyPoint updates after checkProximity(x, y), called by a  *)
(* handler whose closure holds nearbyPoint = captured, with queue pend.      *)
checkProximity(x, y, captured, pend) ==
    LET closest == closestPoint(x, y)
    IN  IF closest # captured THEN <<closest>> ELSE pend

----------------------------------------------------------------------------
(* checkBoundaries *)

(* One axis of checkBoundaries: the constrained coordinate. *)
constrain(c) ==
    IF FLt(c, margin * Scale) THEN Fin(margin * Scale)
    ELSE IF FGt(c, (mapSize - margin) * Scale) THEN Fin((mapSize - margin) * Scale)
    ELSE c

checkBoundaries(x, y) ==
    [x |-> constrain(x),
     y |-> constrain(y),
     hitBoundary |-> (constrain(x) # x \/ constrain(y) # y)]

(* The sound call without its catch: the rejection reaches no handler. *)
soundRejectionUncaught(u) == [unhandledRejection |-> TRUE, caught |-> FALSE]

(* playBarrierCollisionSound().catch(() => {}) when the promise rejects: the *)
(* catch callback runs and consumes the rejection; the unhandled-rejection   *)
(* flag u of the runtime is left as it is.                                   *)
soundRejection(u) == [unhandledRejection |-> u, caught |-> TRUE]

----------------------------------------------------------------------------
(* Arithmetic of the handlers *)

(* (delta / size) * 100 * sensitivity, in units: a division by a zero size is *)
(* Infinity, -Infinity, or NaN for 0 / 0.                                     *)
deltaPercent(delta, size) ==
    IF size = 0
    THEN (IF delta = 0 THEN NaN ELSE IF delta > 0 THEN PosInf ELSE NegInf)
    ELSE Fin((delta * percent * sensitivityNum * Scale) \div (size * sensitivityDen))

(* (velocity * momentumFactor) / 10, in units *)
momentum(velocity) ==
    Fin((velocity * momentumFactorNum * Scale) \div (momentumFactorDen * momentumDivisor))

(* The momentum test written speed >= 100. *)
significantInclusive(vx, vy) == vx * vx + vy * vy >= minSpeed * minSpeed

(* speed > 100, with speed = Math.sqrt(vx * vx + vy * vy) *)
significant(vx, vy) == vx * vx + vy * vy > minSpeed * minSpeed

----------------------------------------------------------------------------
(* State *)

Init ==
    /\ containerRef = "null"
    /\ panSession = FALSE
    /\ shipX = Fin(startX * Scale)
    /\ shipY = Fin(startY * Scale)
    /\ isDragging = FALSE
    /\ isDecelerating = FALSE
    /\ nearbyPoint = NULL
    /\ pendDragging = <<>>
    /\ pendDecelerating = <<>>
    /\ pendNearby = <<>>
    /\ timers = 0
    /\ sounds = 0
    /\ unhandledRejection = FALSE
    /\ click = <<>>
    /\ caught = FALSE

(* The component re-renders: the queued updates become the rendered state and *)
(* the handlers are re-created over it.                                       *)
Render ==
    /\ containerRef = "div"
    /\ pendDragging # <<>> \/ pendDecelerating # <<>> \/ pendNearby # <<>>
    /\ isDragging' = IF pendDragging = <<>> THEN isDragging ELSE pendDragging[1]
    /\ isDecelerating' = IF pendDecelerating = <<>> THEN isDecelerating ELSE pendDecelerating[1]
    /\ nearbyPoint' = IF pendNearby = <<>> THEN nearbyPoint ELSE pendNearby[1]
    /\ pendDragging' = <<>>
    /\ pendDecelerating' = <<>>
    /\ pendNearby' = <<>>
    /\ click' = <<>>
    /\ caught' = FALSE
    /\ UNCHANGED <<containerRef, panSession, shipX, shipY, timers, sounds, unhandledRejection>>

handlePanStart ==
    /\ containerRef = "div"
    /\ ~panSession
    /\ panSession' = TRUE
    /\ pendDragging' = <<TRUE>>
    /\ pendDecelerating' = <<FALSE>>
    /\ click' = <<>>
    /\ caught' = FALSE
    /\ UNCHANGED <<containerRef, shipX, shipY, isDragging, isDecelerating, nearbyPoint,
                   pendNearby, timers, sounds, unhandledRejection>>

(* The body of handlePan past the containerRef guard, for the pointer delta *)
(* (dx, dy) and the container rectangle w x h.                              *)
panMove(dx, dy, w, h) ==
    LET newX == FAdd(shipX, deltaPercent(dx, w))
        newY == FAdd(shipY, deltaPercent(dy, h))
        c == checkBoundaries(newX, newY)
    IN  /\ c.hitBoundary => sounds < MaxSounds
        /\ shipX' = c.x
        /\ shipY' = c.y
        /\ sounds' = IF c.hitBoundary THEN sounds + 1 ELSE sounds
        /\ pendNearby' = checkProximity(c.x, c.y, nearbyPoint, pendNearby)
        /\ click' = <<>>
        /\ caught' = FALSE
        /\ UNCHANGED <<containerRef, panSession, isDragging, isDecelerating, nearbyPoint,
                       pendDragging, pendDecelerating, timers, unhandledRejection>>

handlePan(dx, dy, w, h) ==
    /\ panSession
    /\ IF containerRef = "null"
       THEN /\ click' = <<>>
            /\ caught' = FALSE
            /\ UNCHANGED <<containerRef, panSession, shipX, shipY, isDragging, isDecelerating, nearbyPoint,
                           pendDragging, pendDecelerating, pendNearby, timers, sounds,
                           unhandledRejection>>
       ELSE panMove(dx, dy, w, h)

(* The momentum branch of handlePanEnd. *)
panEndMomentum(vx, vy) ==
    LET targetX == FAdd(shipX, momentum(vx))
        targetY == FAdd(shipY, momentum(vy))
        c == checkBoundaries(targetX, targetY)
    IN  /\ timers < MaxTimers
        /\ c.hitBoundary => sounds < MaxSounds
        /\ pendDecelerating' = <<TRUE>>
        /\ shipX' = c.x
        /\ shipY' = c.y
        /\ sounds' = IF c.hitBoundary THEN sounds + 1 ELSE sounds
        /\ pendNearby' = checkProximity(c.x, c.y, nearbyPoint, pendNearby)
        /\ timers' = timers + 1

(* GALAXY_POINTS.find((p) => p.id === pointId): <<point>>, or <<>> when absent *)
RECURSIVE findFrom(_, _)
findFrom(i, pointId) ==
    IF i > Len(GALAXY_POINTS) THEN <<>>
    ELSE IF GALAXY_POINTS[i].id = pointId THEN <<GALAXY_POINTS[i]>>
    ELSE findFrom(i + 1, pointId)

(* A handlePointClick without the isDragging guard. *)
pointClickCallAlways(pointId, dragging) ==
    IF findFrom(1, pointId) = <<>> THEN <<>>
    ELSE <<[pointId |-> pointId, pointData |-> findFrom(1, pointId)[1]]>>

(* The onPointClick call of handlePointClick(pointId), <<>> when it makes none *)
pointClickCall(pointId, dragging) ==
    IF dragging THEN <<>>
    ELSE IF findFrom(1, pointId) = <<>> THEN <<>>
    ELSE <<[pointId |-> pointId, pointData |-> findFrom(1, pointId)[1]]>>

(* handlePanEnd but for the callbacks it makes (none). *)
panEndBody(vx, vy) ==
    /\ containerRef = "div"
    /\ panSession
    /\ panSession' = FALSE
    /\ pendDragging' = <<FALSE>>
    /\ IF significant(vx, vy)
       THEN panEndMomentum(vx, vy)
       ELSE UNCHANGED <<shipX, shipY, pendDecelerating, pendNearby, timers, sounds>>
    /\ caught' = FALSE
    /\ UNCHANGED <<containerRef, isDragging, isDecelerating, nearbyPoint, unhandledRejection>>

(* A handlePanEnd that calls onPointClick for the point the ship lands near. *)
handlePanEndLanding(vx, vy) ==
    /\ panEndBody(vx, vy)
    /\ click' = IF closestPoint(shipX', shipY') = NULL THEN <<>>
                ELSE <<[pointId |-> closestPoint(shipX', shipY'),
                        onPointClick |-> pointClickCall(closestPoint(shipX', shipY'), FALSE)]>>

handlePanEnd(vx, vy) ==
    /\ panEndBody(vx, vy)
    /\ click' = <<>>

(* The callback of setTimeout(() => setIsDecelerating(false), 800). *)
timerFires ==
    /\ containerRef = "div"
    /\ timers > 0
    /\ timers' = timers - 1
    /\ pendDecelerating' = <<FALSE>>
    /\ click' = <<>>
    /\ caught' = FALSE
    /\ UNCHANGED <<containerRef, panSession, shipX, shipY, isDragging, isDecelerating, nearbyPoint,
                   pendDragging, pendNearby, sounds, unhandledRejection>>

handlePointClick(pointId) ==
    /\ containerRef = "div"
    /\ click' = <<[pointId |-> pointId, onPointClick |-> pointClickCall(pointId, isDragging)]>>
    /\ caught' = FALSE
    /\ UNCHANGED <<containerRef, panSession, shipX, shipY, isDragging, isDecelerating, nearbyPoint,
                   pendDragging, pendDecelerating, pendNearby, timers, sounds,
                   unhandledRejection>>

(* The sound promise settles. *)
soundResolves ==
    /\ containerRef = "div"
    /\ sounds > 0
    /\ sounds' = sounds - 1
    /\ click' = <<>>
    /\ caught' = FALSE
    /\ UNCHANGED <<containerRef, panSession, shipX, shipY, isDragging, isDecelerating, nearbyPoint,
                   pendDragging, pendDecelerating, pendNearby, timers, unhandledRejection>>

soundRejects ==
    /\ containerRef = "div"
    /\ sounds > 0
    /\ sounds' = sounds - 1
    /\ unhandledRejection' = soundRejection(unhandledRejection).unhandledRejection
    /\ caught' = soundRejection(unhandledRejection).caught
    /\ click' = <<>>
    /\ UNCHANGED <<containerRef, panSession, shipX, shipY, isDragging, isDecelerating, nearbyPoint,
                   pendDragging, pendDecelerating, pendNearby, timers>>

(* The first commit: React attaches the container element to the ref and *)
(* the event listeners to the elements.                                  *)
Mount ==
    /\ containerRef = "null"
    /\ containerRef' = "div"
    /\ click' = <<>>
    /\ caught' = FALSE
    /\ UNCHANGED <<panSession, shipX, shipY, isDragging, isDecelerating, nearbyPoint,
                   pendDragging, pendDecelerating, pendNearby, timers, sounds,
                   unhandledRejection>>

Pan(DX, DY, R) == \E dx \in DX, dy \in DY, r \in R : handlePan(dx, dy, r[1], r[2])

PanEnd(V) == \E v \in V : handlePanEnd(v[1], v[2])

PointClick == \E pointId \in PointIds : handlePointClick(pointId)

(* The ship moves on both axes; no point is clicked. *)
Next ==
    \/ Render
    \/ handlePanStart
    \/ Pan(DeltasX, DeltasY, Rects)
    \/ PanEnd(Velocities)
    \/ timerFires
    \/ soundResolves
    \/ soundRejects
    \/ Mount

Spec == Init /\ [][Next]_vars

(* The ship moves on the horizontal axis of the laid-out container, and the *)
(* points are clicked.                                                      *)
NextClick ==
    \/ Render
    \/ handlePanStart
    \/ Pan(DeltasX, NoDelta, LaidOut)
    \/ PanEnd(HVelocities)
    \/ PointClick
    \/ timerFires
    \/ soundResolves
    \/ soundRejects
    \/ Mount

SpecClick == Init /\ [][NextClick]_vars

(* The ship is dragged over the lower half of the laid-out container in *)
(* steps of 4 percent of its width, and not released.                   *)
NextFine ==
    \/ Mount
    \/ Render
    \/ handlePanStart
    \/ Pan(FineDeltasX, FineDeltasY, LaidOut)
    \/ soundResolves
    \/ soundRejects

SpecFine == Init /\ [][NextFine]_vars

----------------------------------------------------------------------------
(* Vocabulary of the properties, stated without the definitions above *)

(* c is a number of the closed range [5, 95] *)
InRange(c) == c.k = "fin" /\ c.v >= 5 * Scale /\ c.v <= 95 * Scale

(* the clamp of n units into [5, 95] *)
Clamped(n) == IF n < 5 * Scale THEN 5 * Scale ELSE IF n > 95 * Scale THEN 95 * Scale ELSE n

(* the squared Euclidean distance of (x, y) to the i-th point *)
SqDist(x, y, i) ==
    (x.v - GALAXY_POINTS[i].x * Scale) * (x.v - GALAXY_POINTS[i].x * Scale)
    + (y.v - GALAXY_POINTS[i].y * Scale) * (y.v - GALAXY_POINTS[i].y * Scale)

(* the points at distance strictly less than 8 of (x, y) *)
Within8(x, y) ==
    {i \in DOMAIN GALAXY_POINTS :
        x.k = "fin" /\ y.k = "fin" /\ SqDist(x, y, i) < (8 * Scale) * (8 * Scale)}

(* the id of the nearest of them, the first in list order on a tie; null if none *)
Nearest(x, y) ==
    IF Within8(x, y) = {} THEN NULL
    ELSE GALAXY_POINTS[CHOOSE i \in Within8(x, y) :
            \A j \in Within8(x, y) :
                \/ SqDist(x, y, i) < SqDist(x, y, j)
                \/ (SqDist(x, y, i) = SqDist(x, y, j) /\ i <= j)].id

(* the GALAXY_POINTS entry of an id *)
PointOf(id) == CHOOSE pt \in {GALAXY_POINTS[i] : i \in DOMAIN GALAXY_POINTS} : pt.id = id

(* a state cell once its queued updates are applied *)
Applied(rendered, pend) == IF pend = <<>> THEN rendered ELSE pend[1]

NothingQueued == pendDragging = <<>> /\ pendDecelerating = <<>> /\ pendNearby = <<>>

AllDeltasX == DeltasX \cup FineDeltasX

AllDeltasY == DeltasY \cup NoDelta

(* The step is a pan event handled with the container mounted: the pan    *)
(* session stays open and no state is set but the ship position, the      *)
(* nearbyPoint queue and the sound promises in flight.  (Of the other     *)
(* steps, a render empties a queue, a timer or a settled sound lowers its *)
(* count, a click is recorded, a pan start or end toggles the session.)   *)
PanStep ==
    /\ containerRef = "div"
    /\ panSession /\ panSession'
    /\ click' = <<>> /\ ~caught'
    /\ sounds' >= sounds
    /\ UNCHANGED <<isDragging, isDecelerating, nearbyPoint, pendDragging,
                   pendDecelerating, timers>>

(* The step is a pan end that took the momentum branch: it closes the pan *)
(* session and schedules the deceleration timer.                          *)
FastPanEndStep == panSession /\ ~panSession' /\ timers' = timers + 1

(* the ship rests on an edge of the allowed range *)
OnEdge ==
    \/ shipX \in {Fin(5 * Scale), Fin(95 * Scale)}
    \/ shipY \in {Fin(5 * Scale), Fin(95 * Scale)}

----------------------------------------------------------------------------
(* Properties *)

(* C1: after any sequence of pan and pan-end events, for every delta, release *)
(* velocity and container size, shipX and shipY lie in [5, 95].               *)
C1_ShipInBounds == InRange(shipX) /\ InRange(shipY)

(* C2: whenever a pan ends with the ship within the proximity threshold of a *)
(* point, onPointClick is invoked with that point's id and data.             *)
C2_PanEndInvokesCallback ==
    [][\A v \in Velocities :
        (handlePanEnd(v[1], v[2]) /\ Nearest(shipX', shipY') # NULL)
        => /\ click' # <<>>
           /\ click'[1].onPointClick =
                <<[pointId |-> Nearest(shipX', shipY'),
                   pointData |-> PointOf(Nearest(shipX', shipY'))]>>]_vars

(* C2, amended: onPointClick is invoked only by a click on a map point handled *)
(* while the rendered isDragging is false, with the clicked point's id and its *)
(* GALAXY_POINTS entry; a pan end invokes nothing, wherever the ship lands.    *)
C2_CallbackOnlyOnClick ==
    [][/\ (click' # <<>> /\ click'[1].onPointClick # <<>>)
          => /\ ~isDragging
             /\ panSession' = panSession
             /\ <<shipX', shipY'>> = <<shipX, shipY>>
             /\ click'[1].onPointClick =
                  <<[pointId |-> click'[1].pointId, pointData |-> PointOf(click'[1].pointId)]>>
       /\ (panSession /\ ~panSession') => click' = <<>>]_vars

(* the player has landed near a point and clicked it: the callback was invoked *)
C2_Witness ==
    /\ click # <<>>
    /\ click[1].onPointClick # <<>>
    /\ Nearest(shipX, shipY) = click[1].pointId
    /\ ~panSession

(* C3: a call checkProximity(x, y) by a handler whose closure holds the current *)
(* nearbyPoint (no update of it is queued) leaves nearbyPoint, once rendered,   *)
(* equal to the nearest point at distance < 8 of (x, y), or null if none.       *)
C3_ProximityNearest ==
    [][(pendNearby = <<>> /\ (PanStep \/ FastPanEndStep))
        => Applied(nearbyPoint, pendNearby') = Nearest(shipX', shipY')]_vars

(* the closure held campo-asteroides (70, 50) and the ship was moved to (62, 50), *)
(* at distance exactly 8: the call queued null                                   *)
C3_Witness ==
    /\ shipX = Fin(62 * Scale)
    /\ shipY = Fin(50 * Scale)
    /\ nearbyPoint = "campo-asteroides"
    /\ pendNearby = <<NULL>>

(* C4: a pan event with delta (dx, dy), handled with the container mounted,   *)
(* W > 0, H > 0 and the ship at (x, y), sets the ship to the clamp into       *)
(* [5, 95] of (x + 1.2 * 100 * dx / W, y + 1.2 * 100 * dy / H), and evaluates *)
(* proximity at the clamped position.                                         *)
C4_PanIntegratesDelta ==
    [][\A dx \in AllDeltasX, dy \in AllDeltasY, r \in Rects :
        (containerRef = "div" /\ r[1] > 0 /\ r[2] > 0 /\ handlePan(dx, dy, r[1], r[2]))
        => /\ shipX' = Fin(Clamped(shipX.v + (12 * 100 * dx * Scale) \div (10 * r[1])))
           /\ shipY' = Fin(Clamped(shipY.v + (12 * 100 * dy * Scale) \div (10 * r[2])))
           /\ pendNearby' = IF Nearest(shipX', shipY') # nearbyPoint
                            THEN <<Nearest(shipX', shipY')>> ELSE pendNearby]_vars

(* C4 for a ship whose coordinates are numbers of [5, 95] *)
C4_PanIntegratesDeltaInRange ==
    [][\A dx \in AllDeltasX, dy \in AllDeltasY, r \in Rects :
        (/\ containerRef = "div" /\ r[1] > 0 /\ r[2] > 0
         /\ InRange(shipX) /\ InRange(shipY)
         /\ handlePan(dx, dy, r[1], r[2]))
        => /\ shipX' = Fin(Clamped(shipX.v + (12 * 100 * dx * Scale) \div (10 * r[1])))
           /\ shipY' = Fin(Clamped(shipY.v + (12 * 100 * dy * Scale) \div (10 * r[2])))
           /\ pendNearby' = IF Nearest(shipX', shipY') # nearbyPoint
                            THEN <<Nearest(shipX', shipY')>> ELSE pendNearby]_vars

(* C5: a pan end of speed > 100 with the ship at (x, y) moves the ship to the *)
(* clamp into [5, 95] of (x + 0.01 * vx, y + 0.01 * vy), sets isDecelerating  *)
(* to true and re-evaluates nearbyPoint at that final position.               *)
C5_MomentumMovesShip ==
    [][\A v \in Velocities :
        (v[1] * v[1] + v[2] * v[2] > 100 * 100 /\ handlePanEnd(v[1], v[2]))
        => /\ shipX' = Fin(Clamped(shipX.v + (v[1] * Scale) \div 100))
           /\ shipY' = Fin(Clamped(shipY.v + (v[2] * Scale) \div 100))
           /\ pendDecelerating' = <<TRUE>>
           /\ pendNearby' = IF Nearest(shipX', shipY') # nearbyPoint
                            THEN <<Nearest(shipX', shipY')>> ELSE pendNearby]_vars

(* C5 for a ship whose coordinates are numbers of [5, 95] *)
C5_MomentumMovesShipInRange ==
    [][\A v \in Velocities :
        (/\ v[1] * v[1] + v[2] * v[2] > 100 * 100
         /\ InRange(shipX) /\ InRange(shipY)
         /\ handlePanEnd(v[1], v[2]))
        => /\ shipX' = Fin(Clamped(shipX.v + (v[1] * Scale) \div 100))
           /\ shipY' = Fin(Clamped(shipY.v + (v[2] * Scale) \div 100))
           /\ pendDecelerating' = <<TRUE>>
           /\ pendNearby' = IF Nearest(shipX', shipY') # nearbyPoint
                            THEN <<Nearest(shipX', shipY')>> ELSE pendNearby]_vars

(* C6: a rejection of the collision-sound promise is ignored: the step that   *)
(* settles a sound promise, by rejection as by fulfilment, leaves the clamped *)
(* ship position, nearbyPoint and every other state cell and queue as the     *)
(* handler set them, and no rejection is ever left unhandled.                 *)
C6_RejectionIgnored ==
    [][(sounds' < sounds)
        => /\ ~unhandledRejection'
           /\ UNCHANGED <<shipX, shipY, isDragging, isDecelerating, nearbyPoint,
                          pendDragging, pendDecelerating, pendNearby, timers,
                          panSession, containerRef>>]_vars

(* a rejection has just been caught while the ship rests, clamped, on an edge *)
C6_Witness == caught /\ OnEdge /\ ~unhandledRejection

C8_SlowPanEndFrame ==
    [][\A v \in Velocities :
        (v[1] * v[1] + v[2] * v[2] <= 100 * 100 /\ handlePanEnd(v[1], v[2]))
        => /\ pendDragging' = <<FALSE>>
           /\ UNCHANGED <<shipX, shipY, nearbyPoint, pendNearby, isDecelerating,
                          pendDecelerating, timers, sounds>>]_vars

(* a pan started at the initial position has ended without momentum *)
C8_Witness ==
    /\ ~panSession
    /\ pendDragging = <<FALSE>>
    /\ pendDecelerating = <<FALSE>>
    /\ ~isDecelerating
    /\ timers = 0
    /\ sounds = 0
    /\ shipX = Fin(50 * Scale)
    /\ shipY = Fin(50 * Scale)

(* C9: once all queued state updates are applied, nearbyPoint is the nearest *)
(* point within distance 8 of the current ship position, or null.            *)
C9_NearbyTracksShip ==
    (containerRef = "div" /\ NothingQueued) => nearbyPoint = Nearest(shipX, shipY)

====
